---- MODULE Spec2Model ----
(***************************************************************************)
(* Model of create_docs.py: the JSON pretty-printer, the type describer,   *)
(* the example formatter, the recursive schema-bullet renderer and the     *)
(* markdown document driver.                                               *)
(*                                                                         *)
(* JSON values are tagged records.  A string value carries its text and a  *)
(* flag saying whether the text is surrounded by whitespace, so that       *)
(* str.strip() is a real operation.  A piece of text with newlines is a    *)
(* sequence of lines; a line is its count of leading spaces and the text   *)
(* after them.  The objects that the program mutates in place (the         *)
(* examples of a schema node) live in a heap and are referred to by id.    *)
(***************************************************************************)
EXTENDS Integers, Sequences, FiniteSets, TLC

VARIABLES
  schema,    \* the schema tree handed to write_markdown
  heap,      \* id -> the examples list stored under that id
  md_lines,  \* the output buffer of write_markdown
  pc,        \* position of the driver / of the call
  sec,       \* index of the section walk_properties is working on
  fld,       \* index of the next field of that section
  names,     \* every name argument _render_schema_bullets has received
  fmts,      \* ids of the examples lists format_examples_for_markdown was applied to
  call,      \* the function called and its arguments, for a single call
  ret        \* what the call returned

vars == <<schema, heap, md_lines, pc, sec, fld, names, fmts, call, ret>>

---------------------------------------------------------------------------
(* JSON values *)

JNull == [k |-> "null"]
JBool(b) == [k |-> "bool", b |-> b]
JInt(i) == [k |-> "int", i |-> i]
JStr(s) == [k |-> "str", s |-> s, ws |-> FALSE]
JPad(s) == [k |-> "str", s |-> s, ws |-> TRUE]
JList(l) == [k |-> "list", l |-> l]
JDict(d) == [k |-> "dict", d |-> d]
JRef(id) == [k |-> "ref", id |-> id]
E(key, val) == [key |-> key, val |-> val]

\* Python's None, as the result of dict.get on a missing key
None == [k |-> "none"]

RECURSIVE Index(_, _, _)
Index(d, key, i) ==
  IF i > Len(d) THEN 0
  ELSE IF d[i].key = key THEN i
  ELSE Index(d, key, i + 1)

\* key in spec
Has(spec, key) == Index(spec.d, key, 1) # 0
\* spec.get(key)
Get(spec, key) == IF Has(spec, key) THEN spec.d[Index(spec.d, key, 1)].val ELSE None
\* spec.get(key, dflt)
GetOr(spec, key, dflt) == IF Has(spec, key) THEN Get(spec, key) ELSE dflt

\* the characters of a string value
Text(x) == IF x.ws THEN " " \o x.s \o " " ELSE x.s
\* str.strip() of a string value
Strip(x) == x.s

---------------------------------------------------------------------------
(* Lines of text *)

Ln(ind, text) == [ind |-> ind, text |-> text]

RECURSIVE Spaces(_)
Spaces(n) == IF n = 0 THEN "" ELSE " " \o Spaces(n - 1)

RECURSIVE JoinStr(_, _)
JoinStr(strs, sep) ==
  IF Len(strs) = 0 THEN ""
  ELSE IF Len(strs) = 1 THEN strs[1]
  ELSE strs[1] \o sep \o JoinStr(Tail(strs), sep)

\* n spaces, then s, then the text `lines` (whose first line continues the line)
Prefixed(n, s, lines) ==
  <<Ln(n, s \o Spaces(lines[1].ind) \o lines[1].text)>> \o Tail(lines)

\* lines with "," appended to the last one
WithComma(lines) ==
  [i \in 1..Len(lines) |->
     IF i = Len(lines) THEN Ln(lines[i].ind, lines[i].text \o ",") ELSE lines[i]]

\* ",\n".join(pieces): each piece is a sequence of lines
RECURSIVE JoinPieces(_)
JoinPieces(pieces) ==
  IF Len(pieces) = 0 THEN <<>>
  ELSE IF Len(pieces) = 1 THEN pieces[1]
  ELSE WithComma(pieces[1]) \o JoinPieces(Tail(pieces))

---------------------------------------------------------------------------
(* is_scalar, all_scalars, format_json_doc *)

is_scalar(x) == x.k \in {"int", "str", "null", "bool"}

\* a variant that takes a list with one scalar for a list of scalars
some_scalar(arr) == \E i \in 1..Len(arr) : is_scalar(arr[i])

all_scalars(arr) == \A i \in 1..Len(arr) : is_scalar(arr[i])

\* json.dumps of a scalar
dumps(x) ==
  CASE x.k = "int" -> ToString(x.i)
    [] x.k = "str" -> "\"" \o Text(x) \o "\""
    [] x.k = "bool" -> (IF x.b THEN "true" ELSE "false")
    [] OTHER -> "null"

RECURSIVE format_json_doc(_, _, _)
format_json_doc(obj, indent, level) ==
  LET space == indent * level
      space_inner == indent * (level + 1)
  IN IF is_scalar(obj) THEN <<Ln(0, dumps(obj))>>
     ELSE IF obj.k = "list" THEN
       IF Len(obj.l) = 0 THEN <<Ln(0, "[]")>>
       ELSE IF all_scalars(obj.l)
         THEN <<Ln(0, "[" \o JoinStr([i \in 1..Len(obj.l) |-> dumps(obj.l[i])], ", ") \o "]")>>
         ELSE LET pieces == [i \in 1..Len(obj.l) |->
                               Prefixed(space_inner, "", format_json_doc(obj.l[i], indent, level + 1))]
              IN <<Ln(0, "[")>> \o JoinPieces(pieces) \o <<Ln(space, "]")>>
     ELSE IF obj.k = "dict" THEN
       IF Len(obj.d) = 0 THEN <<Ln(0, "{}")>>
       ELSE LET pieces == [i \in 1..Len(obj.d) |->
                             Prefixed(space_inner, "\"" \o obj.d[i].key \o "\": ",
                                      format_json_doc(obj.d[i].val, indent, level + 1))]
            IN <<Ln(0, "{")>> \o JoinPieces(pieces) \o <<Ln(space, "}")>>
     ELSE <<Ln(0, "null")>>

---------------------------------------------------------------------------
(* Truthiness and str() of the values the renderer formats *)

Truthy(x) ==
  CASE x.k = "str" -> Text(x) # ""
    [] x.k = "int" -> x.i # 0
    [] x.k = "bool" -> x.b
    [] x.k = "list" -> Len(x.l) > 0
    [] x.k = "dict" -> Len(x.d) > 0
    [] OTHER -> FALSE

\* str(x) as an f-string prints it (strings, numbers, booleans, None)
Str(x) ==
  CASE x.k = "str" -> Text(x)
    [] x.k = "int" -> ToString(x.i)
    [] x.k = "bool" -> (IF x.b THEN "True" ELSE "False")
    [] OTHER -> "None"

IsTrue(spec) == spec.k = "bool" /\ spec.b
IsFalse(spec) == spec.k = "bool" /\ ~spec.b
IsDict(spec) == spec.k = "dict"
\* t == "array", t == "object"
IsTag(t, tag) == t.k = "str" /\ Text(t) = tag

---------------------------------------------------------------------------
(* get_type_string *)

\* [alt.get("type") for alt in alts if isinstance(alt, dict) and "type" in alt]
RECURSIVE AltTypes(_)
AltTypes(alts) ==
  IF Len(alts) = 0 THEN <<>>
  ELSE (IF IsDict(alts[1]) /\ Has(alts[1], "type") THEN <<Get(alts[1], "type")>> ELSE <<>>)
       \o AltTypes(Tail(alts))

\* filter(None, t)
RECURSIVE FilterTruthy(_)
FilterTruthy(t) ==
  IF Len(t) = 0 THEN <<>>
  ELSE (IF Truthy(t[1]) THEN <<t[1]>> ELSE <<>>) \o FilterTruthy(Tail(t))

\* t[0] if len(set(t)) == 1 else ", ".join(filter(None, t))
UnionLabel(t) ==
  IF Cardinality({t[i] : i \in 1..Len(t)}) = 1 THEN t[1]
  ELSE LET kept == FilterTruthy(t)
       IN JStr(JoinStr([i \in 1..Len(kept) |-> Text(kept[i])], ", "))

\* f"array of {', '.join(it) if isinstance(it, list) else it}"
ArrayLabel(it) ==
  IF it.k = "list"
    THEN JStr("array of " \o JoinStr([i \in 1..Len(it.l) |-> Text(it.l[i])], ", "))
    ELSE JStr("array of " \o Str(it))

get_type_string(spec) ==
  IF IsTrue(spec) THEN JStr("any")
  ELSE IF IsFalse(spec) THEN JStr("forbidden")
  ELSE IF ~IsDict(spec) THEN None
  ELSE
    LET t0 == IF Has(spec, "type") THEN Get(spec, "type")
              ELSE IF Has(spec, "oneOf") THEN UnionLabel(AltTypes(Get(spec, "oneOf").l))
              ELSE IF Has(spec, "anyOf") THEN UnionLabel(AltTypes(Get(spec, "anyOf").l))
              ELSE None
        items == GetOr(spec, "items", JDict(<<>>))
        t == IF IsTag(t0, "array") /\ IsDict(items) /\ Has(items, "type")
               THEN ArrayLabel(Get(items, "type"))
               ELSE t0
    IN IF Truthy(t) THEN t ELSE None

\* get_type_string(spec) or dflt, as text
TypeOr(spec, dflt) ==
  LET t == get_type_string(spec) IN IF Truthy(t) THEN Str(t) ELSE dflt

---------------------------------------------------------------------------
(* format_examples_for_markdown *)

\* The backquote, which a TLA+ string cannot hold, is written as an apostrophe.
BQ == "'"
Fence == BQ \o BQ \o BQ

\* ex.pop("description"): the mapping without that entry
\* a variant that drops the first entry, whatever its key
PopFirst(ex, key) == JDict(Tail(ex.d))

Pop(ex, key) ==
  LET i == Index(ex.d, key, 1)
  IN JDict(SubSeq(ex.d, 1, i - 1) \o SubSeq(ex.d, i + 1, Len(ex.d)))

\* isinstance(ex, dict) and "description" in ex
HasInlineDesc(ex) == IsDict(ex) /\ Has(ex, "description")

\* text.strip("{}").strip("\n") on the text format_json_doc returns
StripBraces(lines) ==
  IF Len(lines) = 1
    THEN (IF lines[1] = Ln(0, "{}") THEN <<Ln(0, "")>> ELSE lines)
    ELSE LET a == IF lines[1] = Ln(0, "{") THEN Tail(lines) ELSE lines
         IN IF a[Len(a)] = Ln(0, "}") THEN SubSeq(a, 1, Len(a) - 1) ELSE a

\* the blocks one example appends, given the example as left by the pop
ExampleBlocks(ex) ==
  (IF HasInlineDesc(ex) THEN << <<Ln(0, ""), Ln(0, Str(Get(ex, "description")))>> >> ELSE <<>>)
  \o << <<Ln(0, Fence \o "json")>>
        \o StripBraces(format_json_doc(IF HasInlineDesc(ex) THEN Pop(ex, "description") ELSE ex, 2, 0))
        \o <<Ln(0, Fence)>> >>

\* the example as the loop body leaves it
Consumed(ex) == IF HasInlineDesc(ex) THEN Pop(ex, "description") ELSE ex

\* "\n\n".join(blocks)
RECURSIVE JoinBlocks(_)
JoinBlocks(blocks) ==
  IF Len(blocks) = 0 THEN <<>>
  ELSE IF Len(blocks) = 1 THEN blocks[1]
  ELSE blocks[1] \o <<Ln(0, "")>> \o JoinBlocks(Tail(blocks))

RECURSIVE AllBlocks(_)
AllBlocks(examples) ==
  IF Len(examples) = 0 THEN <<>>
  ELSE ExampleBlocks(examples[1]) \o AllBlocks(Tail(examples))

\* returns the text and the examples list as the call leaves it
format_examples_for_markdown(examples) ==
  [text |-> JoinBlocks(AllBlocks(examples)),
   examples |-> [i \in 1..Len(examples) |-> Consumed(examples[i])]]

---------------------------------------------------------------------------
(* _render_schema_bullets *)

\* An element of a list of markdown lines: `ind` spaces, then the fragments
\* `parts` of the f-string that built it; or, when the element is a text
\* holding newlines, the lines `sub` of that text.
MdLine(ind, parts) == [ind |-> ind, parts |-> parts, sub |-> <<>>]
MdText(lines) == [ind |-> 0, parts |-> <<>>, sub |-> lines]

\* What a call leaves behind: the heap, and the record of the name arguments
\* received and of the examples lists formatted.
St(h, ns, fs) == [heap |-> h, names |-> ns, fmts |-> fs]
\* A call that returned `lines`, and a call that raised AttributeError.
Ok(lines, st) == [lines |-> lines, fault |-> FALSE, st |-> st]
Raised(st) == [lines |-> <<>>, fault |-> TRUE, st |-> st]

\* the list an "examples" entry refers to (nothing when the entry is missing)
ExamplesOf(v, h) == IF v.k = "ref" THEN h[v.id] ELSE <<>>

\* set(spec.get("required", []))
ReqSet(spec) ==
  LET r == GetOr(spec, "required", JList(<<>>))
  IN {Text(r.l[i]) : i \in 1..Len(r.l)}

\* "required" if child in req else "optional"
ChildReq(child, req) == IF child \in req THEN "required" ELSE "optional"

\* (spec.get("description") or "").strip()
DescOf(spec) ==
  LET d == Get(spec, "description") IN IF Truthy(d) THEN Strip(d) ELSE ""

\* the header line of a declared property
Header(indent, child, child_req, child_type, desc) ==
  MdLine(indent, <<"- **" \o BQ, child, BQ \o " (", child_req, ", *type: ", child_type, "*)**">>
                 \o (IF desc # "" THEN <<": ", desc>> ELSE <<>>))

\* the line of a named node
NameLine(indent, name, label) ==
  MdLine(indent, <<"- " \o BQ, Str(name), BQ \o " (*", label, "*)">>)

\* "\n".join("  " + ln if ln else "" for ln in pretty.splitlines())
Indented(lines) ==
  [i \in 1..Len(lines) |->
     IF lines[i] = Ln(0, "") THEN lines[i] ELSE Ln(lines[i].ind + 2, lines[i].text)]

\* "Example:" if len(examples) == 1 else "Examples:"
ExampleWord(examples) == IF Len(examples) = 1 THEN "Example:" ELSE "Examples:"

\* a variant that hands a name down
ItemName == JStr("item")

\* the name the property loop, the items recursion and the map loop pass on
NoName == None

\* the guards of the array case and of the object case
ArrayCase(spec) == IsTag(Get(spec, "type"), "array")
\* a variant of the object case that steps aside for a combinator
ObjectCaseUnlessUnion(spec) ==
  /\ IsTag(Get(spec, "type"), "object")
  /\ (Has(spec, "properties") \/ Has(spec, "additionalProperties"))
  /\ ~(Has(spec, "anyOf") \/ Has(spec, "oneOf"))

ObjectCase(spec) ==
  /\ IsTag(Get(spec, "type"), "object")
  /\ (Has(spec, "properties") \/ Has(spec, "additionalProperties"))

\* ap.get("anyOf") or ap.get("oneOf") or []
MapAlts(ap) ==
  IF Truthy(Get(ap, "anyOf")) THEN Get(ap, "anyOf")
  ELSE IF Truthy(Get(ap, "oneOf")) THEN Get(ap, "oneOf")
  ELSE JList(<<>>)

\* the line of a map alternative: alt_desc or f'Value of type *{alt_type}*'
AltLine(indent, alt_desc, alt_type) ==
  MdLine(indent, <<"- ", IF alt_desc # "" THEN alt_desc ELSE "Value of type *" \o alt_type \o "*">>)

\* the guard under which the map loop emits an alternative: if alt_desc
AltShown(alt_desc) == alt_desc # ""

\* The recursion of _render_schema_bullets is run on an explicit stack of the
\* work still to do, in the order the code does it: a node to render, a
\* round of the loop over the declared properties, the examples of a
\* property (after the recursion into it), a round of the loop over the
\* alternatives of the map value.
NodeTask(spec, name, indent) == [op |-> "node", spec |-> spec, name |-> name, indent |-> indent]
PropTask(child, child_spec, req, indent) ==
  [op |-> "prop", child |-> child, spec |-> child_spec, req |-> req, indent |-> indent]
ExamplesTask(child_spec) == [op |-> "examples", spec |-> child_spec]
AltTask(alt, indent) == [op |-> "alt", spec |-> alt, indent |-> indent]

\* what one piece of work appends, what it leaves to do, and whether it raised
Out(lines, tasks, st) == [lines |-> lines, tasks |-> tasks, fault |-> FALSE, st |-> st]
Fault(st) == [lines |-> <<>>, tasks |-> <<>>, fault |-> TRUE, st |-> st]

\* the rounds of the two loops of the object case, in order
ObjectTasks(spec, indent) ==
  LET props == Get(spec, "properties").d
      req == ReqSet(spec)
      ap == Get(spec, "additionalProperties")
      alts == MapAlts(ap).l
  IN (IF Has(spec, "properties")
        THEN [i \in 1..Len(props) |-> PropTask(props[i].key, props[i].val, req, indent)]
        ELSE <<>>)
     \o (IF Has(spec, "additionalProperties") /\ IsDict(ap)
            /\ (Has(ap, "anyOf") \/ Has(ap, "oneOf"))
           THEN [i \in 1..Len(alts) |-> AltTask(alts[i], indent)]
           ELSE <<>>)

\* the alternatives the fallback expands: the first of anyOf, oneOf that is a list
FallbackAlts(spec) ==
  IF Get(spec, "anyOf").k = "list" THEN Get(spec, "anyOf")
  ELSE IF Get(spec, "oneOf").k = "list" THEN Get(spec, "oneOf")
  ELSE None

\* the body of _render_schema_bullets for one node, its recursive calls left to do
NodeStep(spec, name, indent, st) ==
  LET named == name # None
      inner == IF named THEN indent + 2 ELSE indent
      items == GetOr(spec, "items", JDict(<<>>))
      alts == FallbackAlts(spec)
  IN
  IF IsTrue(spec)
    THEN Out(IF named THEN <<NameLine(indent, name, "type: any")>> ELSE <<>>, <<>>, st)
  ELSE IF IsFalse(spec)
    THEN Out(IF named THEN <<NameLine(indent, name, "forbidden")>> ELSE <<>>, <<>>, st)
  ELSE IF ~IsDict(spec) THEN Out(<<>>, <<>>, st)
  ELSE IF ArrayCase(spec)
    THEN Out(IF named THEN <<NameLine(indent, name, "type: " \o TypeOr(spec, "array"))>> ELSE <<>>,
             IF items.k \in {"null", "none"} \/ items = JDict(<<>>)
               THEN <<>> ELSE <<NodeTask(items, NoName, inner)>>,
             st)
  ELSE IF ObjectCase(spec)
    THEN Out(IF named THEN <<NameLine(indent, name, "type: object")>> ELSE <<>>,
             ObjectTasks(spec, inner), st)
  ELSE IF alts # None
    THEN Out(<<>>, [i \in 1..Len(alts.l) |-> NodeTask(alts.l[i], name, indent)], st)
  ELSE IF named /\ Truthy(Get(spec, "type"))
    THEN Out(<<NameLine(indent, name, "type: " \o Str(get_type_string(spec)))>>, <<>>, st)
    ELSE Out(<<>>, <<>>, st)

\* one round of the loop over the declared properties, up to the recursion
\* a variant that shows the examples of a property twice
PropStepTwice(child, child_spec, req, indent, st) ==
  IF ~IsDict(child_spec) THEN Fault(st)
  ELSE Out(<<Header(indent, child, ChildReq(child, req), TypeOr(child_spec, "any"),
                    DescOf(child_spec))>>,
           <<NodeTask(child_spec, NoName, indent + 2), ExamplesTask(child_spec),
             ExamplesTask(child_spec)>>, st)

PropStep(child, child_spec, req, indent, st) ==
  IF ~IsDict(child_spec) THEN Fault(st)
  ELSE Out(<<Header(indent, child, ChildReq(child, req), TypeOr(child_spec, "any"),
                    DescOf(child_spec))>>,
           <<NodeTask(child_spec, NoName, indent + 2), ExamplesTask(child_spec)>>, st)

\* the examples of a property shown: f is what format_examples_for_markdown gave
ShowChildExamples(ex, child_examples, f, st) ==
  Out(<<MdLine(0, <<>>), MdLine(2, <<ExampleWord(child_examples)>>), MdText(Indented(f.text))>>,
      <<>>,
      St([st.heap EXCEPT ![ex.id] = f.examples], st.names, Append(st.fmts, ex.id)))

\* the rest of that round: the examples of the property
ExamplesStep(child_spec, st) ==
  IF Len(ExamplesOf(Get(child_spec, "examples"), st.heap)) > 0
    THEN ShowChildExamples(Get(child_spec, "examples"),
                           ExamplesOf(Get(child_spec, "examples"), st.heap),
                           format_examples_for_markdown(ExamplesOf(Get(child_spec, "examples"), st.heap)),
                           st)
    ELSE Out(<<>>, <<>>, st)

\* one round of the loop over the alternatives of the map value
AltStep(alt, indent, st) ==
  IF ~IsDict(alt) THEN Fault(st)
  ELSE IF AltShown(DescOf(alt))
    THEN Out(<<AltLine(indent, DescOf(alt), TypeOr(alt, "any"))>>,
             <<NodeTask(alt, NoName, indent + 2)>>, st)
    ELSE Out(<<>>, <<>>, st)

TaskStep(t, st) ==
  CASE t.op = "node" ->
         NodeStep(t.spec, t.name, t.indent, St(st.heap, st.names \cup {t.name}, st.fmts))
    [] t.op = "prop" -> PropStep(t.child, t.spec, t.req, t.indent, st)
    [] t.op = "examples" -> ExamplesStep(t.spec, st)
    [] OTHER -> AltStep(t.spec, t.indent, st)

\* the stack and the lines so far, after the piece of work on top gave s
Advance(run, s) ==
  [tasks |-> s.tasks \o Tail(run.tasks), lines |-> run.lines \o s.lines,
   fault |-> s.fault, st |-> s.st]

RECURSIVE RunTasks(_)
RunTasks(run) ==
  IF run.fault THEN Raised(run.st)
  ELSE IF Len(run.tasks) = 0 THEN Ok(run.lines, run.st)
  ELSE RunTasks(Advance(run, TaskStep(Head(run.tasks), run.st)))

_render_schema_bullets(spec, name, indent, st) ==
  RunTasks([tasks |-> <<NodeTask(spec, name, indent)>>, lines |-> <<>>, fault |-> FALSE, st |-> st])

---------------------------------------------------------------------------
(* emit_section, walk_properties, write_markdown *)

\* a text as the fragments of a line: nothing when it is empty
Frag(text) == IF text = "" THEN <<>> ELSE <<text>>

\* spec.get(key, '').strip()
StrippedOr(spec, key) ==
  LET v == GetOr(spec, key, JStr("")) IN Strip(v)

\* "required" if is_required else "optional"
ReqStr(is_required) == IF is_required THEN "required" ELSE "optional"

\* the heading and the description of a field
FieldHead(prop_name, spec, is_required) ==
  <<MdLine(0, <<"### " \o BQ, prop_name, BQ \o " (", ReqStr(is_required),
                ", *type: ", TypeOr(spec, "any"), "*)">>),
    MdLine(0, <<>>)>>
  \o (IF DescOf(spec) # "" THEN <<MdLine(0, <<DescOf(spec)>>), MdLine(0, <<>>)>> ELSE <<>>)

\* the examples of the field itself: f is what format_examples_for_markdown gave
ShowExamples(ex, examples, f, st) ==
  Ok(<<MdLine(0, <<ExampleWord(examples)>>), MdLine(0, <<>>), MdText(f.text), MdLine(0, <<>>)>>,
     St([st.heap EXCEPT ![ex.id] = f.examples], st.names, Append(st.fmts, ex.id)))

FieldExamples(spec, st) ==
  IF Len(ExamplesOf(Get(spec, "examples"), st.heap)) > 0
    THEN ShowExamples(Get(spec, "examples"), ExamplesOf(Get(spec, "examples"), st.heap),
                      format_examples_for_markdown(ExamplesOf(Get(spec, "examples"), st.heap)), st)
    ELSE Ok(<<>>, st)

\* head, then the bullets b (with a spacer when there are any), then the examples e
Joined(head, b, e) ==
  Ok(head \o (IF Len(b.lines) > 0 THEN b.lines \o <<MdLine(0, <<>>)>> ELSE <<>>) \o e.lines, e.st)

\* emit_section after the heading, given what _render_schema_bullets returned
AfterBullets(head, spec, b) ==
  IF b.fault THEN [lines |-> head, fault |-> TRUE, st |-> b.st]
  ELSE Joined(head, b, FieldExamples(spec, b.st))

\* The lines emit_section appends to md_lines.  When the call raises, `lines`
\* are the ones appended before it did.
emit_section(prop_name, spec, is_required, st) ==
  IF ~IsDict(spec) THEN Raised(st)
  ELSE AfterBullets(FieldHead(prop_name, spec, is_required), spec,
                    _render_schema_bullets(spec, NoName, 0, st))

\* the three lines walk_properties appends before its loop
SectionHead(schema_section) ==
  <<MdLine(0, <<"## ">> \o Frag(StrippedOr(schema_section, "title"))),
    MdLine(0, Frag(StrippedOr(schema_section, "description"))),
    MdLine(0, <<>>)>>

\* the three lines write_markdown appends first
DocHead(sch) ==
  <<MdLine(0, <<"# ">> \o Frag(StrippedOr(sch, "title"))),
    MdLine(0, Frag(StrippedOr(sch, "description"))),
    MdLine(0, <<>>)>>

\* a variant that walks the metadata section first
SectionKeysSwapped == <<"metadata", "$schema", "data">>

\* the sections write_markdown walks, in its order
SectionKeys == <<"$schema", "metadata", "data">>

\* schema["properties"][key]
SectionOf(sch, i) == Get(Get(sch, "properties"), SectionKeys[i])

\* schema_section.get("properties", {}).items()
FieldsOf(schema_section) == GetOr(schema_section, "properties", JDict(<<>>)).d

---------------------------------------------------------------------------
(* Bounds and the inputs drawn within them *)

MaxLen == 3       \* longest list handed to format_json_doc
MaxLevel == 1     \* deepest _level format_json_doc is entered at
MaxAlts == 3      \* most alternatives of a union
MaxProps == 2     \* most declared properties of an object
MaxFields == 2    \* most top-level fields of a schema document

SeqsUpTo(S, n) == UNION {[1..m -> S] : m \in 0..n}
SeqsFrom(S, lo, n) == UNION {[1..m -> S] : m \in lo..n}

\* --- example lists and heaps
ExLists ==
  << <<JDict(<<E("description", JStr("first")), E("v", JInt(1))>>)>>,
     <<JInt(3),
       JDict(<<E("a", JInt(1)), E("description", JPad("second")), E("b", JList(<<>>))>>),
       JDict(<<E("description", JStr("only"))>>)>>,
     <<JDict(<<E("a", JDict(<<E("k", JInt(1))>>))>>), JList(<<JInt(1)>>)>>,
     <<>> >>

HeapIds == 1..(2 * MaxFields + MaxProps)
HeapSample(shift) == [id \in HeapIds |-> ExLists[((id + shift) % Len(ExLists)) + 1]]
HeapSamples == {HeapSample(shift) : shift \in 0..(Len(ExLists) - 1)}

\* --- values handed to format_json_doc
ValueElems ==
  {JInt(1), JStr("a"), JNull,
   JList(<<>>), JDict(<<E("k", JInt(2))>>), JList(<<JInt(1), JDict(<<E("k", JInt(2))>>)>>)}
Values ==
  ValueElems
  \cup {JList(l) : l \in SeqsFrom(ValueElems, 1, MaxLen)}
  \cup {JList(<<JInt(1), JInt(2), JInt(3)>>), JDict(<<>>), JBool(FALSE), JPad("b"),
        JDict(<<E("a", JList(<<JInt(1), JInt(2)>>)), E("b", JList(<<JDict(<<>>)>>))>>)}
IndentWidths == {0, 2, 4}

\* --- schema nodes
Typed(tag) == JDict(<<E("type", JStr(tag))>>)
With(spec, key, val) == JDict(spec.d \o <<E(key, val)>>)
PropName(i) == IF i = 1 THEN "id" ELSE IF i = 2 THEN "tag" ELSE "p" \o ToString(i)

\* alternatives of a union, for get_type_string
TypeAlts == {Typed("string"), Typed("number"), JDict(<<E("description", JStr("x"))>>), JBool(TRUE)}
TypeNodes ==
  {JDict(<<E(key, JList(alts))>>) : key \in {"oneOf", "anyOf"}, alts \in SeqsUpTo(TypeAlts, MaxAlts)}
  \cup {JBool(TRUE), JBool(FALSE), JInt(7), JDict(<<>>), Typed("string"), Typed("array"),
        With(Typed("array"), "items", Typed("string")),
        With(Typed("array"), "items", JDict(<<E("type", JList(<<JStr("string"), JStr("null")>>))>>)),
        With(Typed("array"), "items", JBool(TRUE)),
        With(Typed("number"), "oneOf", JList(<<Typed("string")>>)),
        JDict(<<E("anyOf", JList(<<Typed("array")>>)), E("items", Typed("object"))>>),
        JDict(<<E("oneOf", JList(<<Typed("string")>>)), E("anyOf", JList(<<Typed("number")>>))>>)}

\* nodes of a declared property; `id` is where its examples live
Inner == With(Typed("object"), "properties", JDict(<<E("in", Typed("string"))>>))
Children(id) ==
  {Typed("string"),
   With(Typed("string"), "description", JPad("the text")),
   With(Typed("number"), "examples", JRef(id)),
   JDict(<<E("anyOf", JList(<<Typed("string"), Typed("number")>>))>>),
   Inner,
   With(Typed("array"), "items", Inner),
   JBool(TRUE),
   JInt(7)}

Requireds(n) == {None, JList(<<JStr("id")>>), JList([i \in 1..n |-> JStr(PropName(i))])}

Object(props, req) ==
  LET o == With(Typed("object"), "properties", JDict([i \in 1..Len(props) |-> E(PropName(i), props[i])]))
  IN IF req = None THEN o ELSE With(o, "required", req)

PropSeqs ==
  {p \in SeqsFrom(UNION {Children(i) : i \in 1..MaxProps}, 1, MaxProps) :
     \A i \in 1..Len(p) : p[i] \in Children(i)}
Objects == UNION {{Object(props, req) : req \in Requireds(Len(props))} : props \in PropSeqs}

SmallObjects == {Object(<<c>>, req) : c \in Children(1), req \in {None, JList(<<JStr("id")>>)}}

\* alternatives of the union of an open-ended map
MapAltSamples ==
  {With(Typed("string"), "description", JStr("a text")),
   Typed("number"),
   With(Typed("number"), "description", JPad("")),
   With(Inner, "description", JPad("a record")),
   JBool(TRUE)}
MapNodes ==
  {With(Typed("object"), "additionalProperties", JDict(<<E(key, JList(alts))>>)) :
     key \in {"anyOf", "oneOf"}, alts \in SeqsUpTo(MapAltSamples, MaxAlts)}
  \cup {With(Typed("object"), "additionalProperties", ap) : ap \in {JBool(TRUE), Typed("string")}}
  \cup {With(With(Inner, "additionalProperties", JDict(<<E("anyOf", JList(<<a>>))>>)), "anyOf", JList(<<Inner>>)) :
          a \in MapAltSamples}

\* a combinator put on a node
Combined(o) ==
  {With(o, key, JList(alts)) : key \in {"anyOf", "oneOf"},
                               alts \in {<<Typed("string")>>, <<Inner, JBool(TRUE)>>, <<o>>}}

Arrays == {With(Typed("array"), "items", o) : o \in SmallObjects \cup {JNull, JDict(<<>>), JBool(FALSE), Typed("string")}}
             \cup {Typed("array")}
Unions ==
  {JDict(<<E(key, JList(<<o, a>>))>>) : key \in {"anyOf", "oneOf"}, o \in SmallObjects,
                                       a \in {Typed("string"), JBool(FALSE), Inner}}
  \cup {JDict(<<E("anyOf", JNull), E("oneOf", JList(<<Inner>>))>>)}
Leaves ==
  {JBool(TRUE), JBool(FALSE), JInt(7), JNull, JDict(<<>>), Typed("string"), Typed("object"),
   With(Typed("object"), "anyOf", JList(<<Inner>>))}

Nodes ==
  Objects \cup MapNodes \cup Arrays \cup Unions \cup Leaves
  \cup UNION {Combined(o) : o \in SmallObjects \cup Arrays}

Names == {None, JStr("root")}
Indents == {0, 2}

\* --- schema documents
\* the node of the g-th top-level field of a document, by template
Field(tpl, g) ==
  LET a == 2 * g - 1
      b == 2 * g
      leaf(id) == With(Typed("string"), "examples", JRef(id))
  IN CASE tpl = "leaf" ->
            With(With(Typed("string"), "description", JPad("a leaf")), "examples", JRef(a))
       [] tpl = "object" ->
            With(With(Object(<<leaf(b), Typed("number")>>, JList(<<JStr("id")>>)),
                      "description", JStr("an object")), "examples", JRef(a))
       [] tpl = "array" ->
            With(Typed("array"), "items", Object(<<leaf(a)>>, None))
       [] tpl = "map" ->
            With(Typed("object"), "additionalProperties",
                 JDict(<<E("anyOf", JList(<<With(Object(<<leaf(b)>>, None), "description", JStr("alt")),
                                            Typed("number")>>))>>))
       [] tpl = "union" ->
            JDict(<<E("anyOf", JList(<<Object(<<leaf(a)>>, None), Object(<<leaf(b)>>, None), JBool(TRUE)>>))>>)
       [] tpl = "marker" -> JBool(TRUE)
       [] OTHER -> Object(<<leaf(a), JBool(FALSE)>>, None)
Templates == {"leaf", "object", "array", "map", "union", "marker", "badprop"}

FieldName(g) == "f" \o ToString(g)

\* the section `i` of a document whose fields are `flds` (section, template)
Section(flds, i, full) ==
  LET mine == SelectSeq([g \in 1..Len(flds) |-> [g |-> g, f |-> flds[g]]], LAMBDA x : x.f[1] = i)
      props == JDict([j \in 1..Len(mine) |-> E(FieldName(mine[j].g), Field(mine[j].f[2], mine[j].g))])
      req == JList(SelectSeq([j \in 1..Len(mine) |-> JStr(FieldName(mine[j].g))],
                             LAMBDA n : n \in {JStr(FieldName(1)), JStr(FieldName(3))}))
  IN IF full
       THEN JDict(<<E("title", JPad(SectionKeys[i] \o " title")), E("description", JPad("about")),
                    E("properties", props), E("required", req)>>)
       ELSE IF Len(mine) = 0 THEN JDict(<<>>) ELSE JDict(<<E("properties", props)>>)

Schema(flds, full) ==
  LET sections == JDict([i \in 1..3 |-> E(SectionKeys[i], Section(flds, i, full))])
  IN IF full
       THEN JDict(<<E("title", JPad("T")), E("description", JStr("D")), E("properties", sections)>>)
       ELSE JDict(<<E("properties", sections)>>)

FieldSeqs ==
  {f \in SeqsUpTo((1..3) \X Templates, MaxFields) :
     \A g \in 1..(Len(f) - 1) : f[g][1] <= f[g + 1][1]}

---------------------------------------------------------------------------
(* The document run: write_markdown, step by step *)

NoCall == [fn |-> "none"]

Init ==
  /\ \E flds \in FieldSeqs, full \in BOOLEAN : schema = Schema(flds, full)
  /\ heap \in {HeapSample(0), HeapSample(1)}
  /\ md_lines = <<>>
  /\ pc = "start"
  /\ sec = 0
  /\ fld = 0
  /\ names = {}
  /\ fmts = <<>>
  /\ call = NoCall
  /\ ret = NoCall

\* write_markdown: the title, the description and a spacer
WriteMarkdown ==
  /\ pc = "start"
  /\ md_lines' = md_lines \o DocHead(schema)
  /\ pc' = "walk"
  /\ sec' = 1
  /\ UNCHANGED <<schema, heap, fld, names, fmts, call, ret>>

\* walk_properties, up to its loop
WalkProperties ==
  /\ pc = "walk"
  /\ md_lines' = md_lines \o SectionHead(SectionOf(schema, sec))
  /\ pc' = "fields"
  /\ fld' = 1
  /\ UNCHANGED <<schema, heap, sec, names, fmts, call, ret>>

\* is_required = name in required_fields; emit_section(md_lines, name, spec, is_required)
EmitField(section, f, st) == emit_section(f.key, f.val, f.key \in ReqSet(section), st)

\* what a call that gave r leaves in the program's state
Emitted(r) ==
  /\ md_lines' = md_lines \o r.lines
  /\ heap' = r.st.heap
  /\ names' = r.st.names
  /\ fmts' = r.st.fmts
  /\ pc' = IF r.fault THEN "raised" ELSE "fields"

\* one round of walk_properties' loop: emit_section on the next field
EmitSection ==
  /\ pc = "fields"
  /\ fld <= Len(FieldsOf(SectionOf(schema, sec)))
  /\ Emitted(EmitField(SectionOf(schema, sec), FieldsOf(SectionOf(schema, sec))[fld],
                       St(heap, names, fmts)))
  /\ fld' = fld + 1
  /\ UNCHANGED <<schema, sec, call, ret>>

\* walk_properties returns: on to the next section, or to writing the file
Return ==
  /\ pc = "fields"
  /\ fld > Len(FieldsOf(SectionOf(schema, sec)))
  /\ IF sec < Len(SectionKeys)
       THEN pc' = "walk" /\ sec' = sec + 1
       ELSE pc' = "written" /\ sec' = sec
  /\ UNCHANGED <<schema, heap, md_lines, fld, names, fmts, call, ret>>

Next == WriteMarkdown \/ WalkProperties \/ EmitSection \/ Return

Spec == Init /\ [][Next]_vars

---------------------------------------------------------------------------
(* Single calls of the functions *)

Calls ==
  {[fn |-> "format_json_doc", obj |-> v, indent |-> w, level |-> l] :
     v \in Values, w \in IndentWidths, l \in 0..MaxLevel}
  \cup {[fn |-> "get_type_string", spec |-> n] : n \in TypeNodes \cup Nodes}
  \cup {[fn |-> "_render_schema_bullets", spec |-> n, name |-> nm, indent |-> ind] :
          n \in Nodes, nm \in Names, ind \in Indents}
  \cup {[fn |-> "format_examples_for_markdown", id |-> id] : id \in HeapIds}

UsesHeap(c) == c.fn \in {"_render_schema_bullets", "format_examples_for_markdown"}

InitCall ==
  /\ call \in Calls
  /\ heap \in (IF UsesHeap(call) THEN HeapSamples ELSE {HeapSample(0)})
  /\ schema = JDict(<<>>)
  /\ md_lines = <<>>
  /\ pc = "ready"
  /\ sec = 0
  /\ fld = 0
  /\ names = {}
  /\ fmts = <<>>
  /\ ret = NoCall

CallFormatJsonDoc ==
  /\ pc = "ready"
  /\ call.fn = "format_json_doc"
  /\ ret' = format_json_doc(call.obj, call.indent, call.level)
  /\ pc' = "returned"
  /\ UNCHANGED <<schema, heap, md_lines, sec, fld, names, fmts, call>>

CallGetTypeString ==
  /\ pc = "ready"
  /\ call.fn = "get_type_string"
  /\ ret' = get_type_string(call.spec)
  /\ pc' = "returned"
  /\ UNCHANGED <<schema, heap, md_lines, sec, fld, names, fmts, call>>

\* what a call of _render_schema_bullets that gave r leaves behind
Returned(r) ==
  /\ ret' = r.lines
  /\ heap' = r.st.heap
  /\ names' = r.st.names
  /\ fmts' = r.st.fmts
  /\ pc' = IF r.fault THEN "raised" ELSE "returned"

CallRenderSchemaBullets ==
  /\ pc = "ready"
  /\ call.fn = "_render_schema_bullets"
  /\ Returned(_render_schema_bullets(call.spec, call.name, call.indent, St(heap, {}, <<>>)))
  /\ UNCHANGED <<schema, md_lines, sec, fld, call>>

\* what a call of format_examples_for_markdown that gave r leaves behind
Formatted(r) ==
  /\ ret' = r.text
  /\ heap' = [heap EXCEPT ![call.id] = r.examples]

CallFormatExamples ==
  /\ pc = "ready"
  /\ call.fn = "format_examples_for_markdown"
  /\ Formatted(format_examples_for_markdown(heap[call.id]))
  /\ fmts' = Append(fmts, call.id)
  /\ pc' = "returned"
  /\ UNCHANGED <<schema, md_lines, sec, fld, names, call>>

NextCall ==
  CallFormatJsonDoc \/ CallGetTypeString \/ CallRenderSchemaBullets \/ CallFormatExamples

SpecCall == InitCall /\ [][NextCall]_vars

---------------------------------------------------------------------------
(* Properties of single calls, checked under SpecCall *)

Called(fn) == call.fn = fn /\ pc # "ready"

\* a header line of a declared property, and the line of a named node
IsHeaderLine(l) == Len(l.parts) >= 7 /\ l.parts[1] = "- **" \o BQ
IsNameLine(l) == Len(l.parts) >= 1 /\ l.parts[1] = "- " \o BQ

RECURSIVE Flatten(_)
Flatten(seqs) == IF Len(seqs) = 0 THEN <<>> ELSE seqs[1] \o Flatten(Tail(seqs))

\* the required names of an object node, read off its "required" entry
RequiredNames(spec) ==
  IF Has(spec, "required")
    THEN {Get(spec, "required").l[i].s : i \in 1..Len(Get(spec, "required").l)}
    ELSE {}

IdTagObject == Object(<<Typed("string"), Typed("string")>>, JList(<<JStr("id")>>))

C1_Case ==
  /\ Called("_render_schema_bullets")
  /\ IsDict(call.spec)
  /\ IsTag(Get(call.spec, "type"), "object")
  /\ Has(call.spec, "properties")

\* C1: _render_schema_bullets on an object node that declares properties
\* returns exactly one header line per declared property, in declaration
\* order, tagged "required" iff the name is in the required set, indented two
\* spaces deeper than the parent's line when the parent has a name and at the
\* parent's indentation when it has none; for the object with required "id"
\* and optional "tag", both strings, these two lines are all it returns
\* beside the parent's own line.
C1_HeaderPerProperty ==
  C1_Case =>
    /\ pc = "returned"
    /\ LET props == Get(call.spec, "properties").d
           base == IF call.name = None THEN call.indent ELSE call.indent + 2
           hdrs == SelectSeq(ret, LAMBDA l : IsHeaderLine(l) /\ l.ind = base)
       IN /\ Len(hdrs) = Len(props)
          /\ \A i \in 1..Len(props) :
               /\ hdrs[i].parts[2] = props[i].key
               /\ hdrs[i].parts[4] = (IF props[i].key \in RequiredNames(call.spec)
                                        THEN "required" ELSE "optional")
    /\ call.spec = IdTagObject => Len(ret) = (IF call.name = None THEN 2 ELSE 3)

\* the tags of the alternatives that declare one, and each distinct tag once
C2_Tags(alts) ==
  LET typed == SelectSeq(alts, LAMBDA a : IsDict(a) /\ Has(a, "type"))
  IN [i \in 1..Len(typed) |-> Get(typed[i], "type").s]

RECURSIVE C2_Distinct(_, _)
C2_Distinct(tags, seen) ==
  IF Len(tags) = 0 THEN <<>>
  ELSE (IF tags[1] \in seen THEN <<>> ELSE <<tags[1]>>)
       \o C2_Distinct(Tail(tags), seen \cup {tags[1]})

C2_Case ==
  /\ Called("get_type_string")
  /\ IsDict(call.spec)
  /\ ~Has(call.spec, "type")
  /\ ~Has(call.spec, "items")
  /\ (Has(call.spec, "oneOf") \/ Has(call.spec, "anyOf"))

\* C2: get_type_string on a node with no type tag but a union of alternatives
\* returns the single tag when all the tags of the alternatives are
\* identical, otherwise the distinct tags, each once, joined with ", ", and
\* nothing when no alternative declares a type.
C2_DistinctTagsJoined ==
  C2_Case =>
    LET alts == IF Has(call.spec, "oneOf") THEN Get(call.spec, "oneOf").l
                ELSE Get(call.spec, "anyOf").l
        tags == C2_Distinct(C2_Tags(alts), {})
    IN IF Len(tags) = 0 THEN ret = None
       ELSE ret = JStr(JoinStr(tags, ", "))

\* C3: _render_schema_bullets never raises, whatever node tree it is given,
\* and a node that is neither a marker nor a mapping renders as nothing.
C3_Total ==
  Called("_render_schema_bullets") =>
    /\ pc = "returned"
    /\ (call.spec.k \notin {"bool", "dict"} => ret = <<>>)

\* the literal of a scalar
C4_Literal(v) ==
  IF v.k = "int" THEN ToString(v.i)
  ELSE IF v.k = "str" THEN "\"" \o (IF v.ws THEN " " \o v.s \o " " ELSE v.s) \o "\""
  ELSE IF v.k = "bool" THEN (IF v.b THEN "true" ELSE "false")
  ELSE "null"

C4_Scalar(v) == v.k \in {"int", "str", "bool", "null"}

\* the lines of the i-th element of a list rendered on several lines
C4_Element(l, i, width, level) ==
  LET sub == format_json_doc(l[i], width, level + 1)
      first == Ln((level + 1) * width, sub[1].text)
      all == <<first>> \o Tail(sub)
  IN IF i = Len(l) THEN all
     ELSE SubSeq(all, 1, Len(all) - 1)
          \o <<Ln(all[Len(all)].ind, all[Len(all)].text \o ",")>>

C4_Case == Called("format_json_doc") /\ call.obj.k = "list"

\* C4: format_json_doc renders an empty list as [], a non-empty list of
\* scalars as the one line [v1, v2, ...], and a list holding a composite on
\* several lines: "[", then each element starting on a line of its own
\* indented by (level+1)*indent spaces, then "]" indented by level*indent
\* spaces.  [1, 2, 3] is one line; [1, {"k": 2}] is six lines.
C4_ListLayout ==
  C4_Case =>
    LET l == call.obj.l
        w == call.indent
        lv == call.level
    IN /\ Len(l) = 0 => ret = <<Ln(0, "[]")>>
       /\ (Len(l) > 0 /\ \A i \in 1..Len(l) : C4_Scalar(l[i])) =>
            ret = <<Ln(0, "[" \o JoinStr([i \in 1..Len(l) |-> C4_Literal(l[i])], ", ") \o "]")>>
       /\ (\E i \in 1..Len(l) : ~C4_Scalar(l[i])) =>
            /\ ret = <<Ln(0, "[")>>
                     \o Flatten([i \in 1..Len(l) |-> C4_Element(l, i, w, lv)])
                     \o <<Ln(lv * w, "]")>>
            /\ \A i \in 1..Len(l) : C4_Scalar(l[i]) => Len(C4_Element(l, i, w, lv)) = 1
       /\ l = <<JInt(1), JInt(2), JInt(3)>> => ret = <<Ln(0, "[1, 2, 3]")>>
       /\ (l = <<JInt(1), JDict(<<E("k", JInt(2))>>)>> /\ w = 2 /\ lv = 0) =>
            ret = <<Ln(0, "["), Ln(2, "1,"), Ln(2, "{"), Ln(4, "\"k\": 2"), Ln(2, "}"), Ln(0, "]")>>

\* a list holding a composite was rendered on several lines at a deeper level
C4_Witness ==
  /\ C4_Case
  /\ call.level = 1
  /\ call.indent = 2
  /\ call.obj.l = <<JStr("a"), JList(<<JInt(1), JDict(<<E("k", JInt(2))>>)>>), JNull>>
  /\ Len(ret) = 10
  /\ ret[Len(ret)] = Ln(2, "]")

C7_Case ==
  /\ Called("_render_schema_bullets")
  /\ IsDict(call.spec)
  /\ IsTag(Get(call.spec, "type"), "object")
  /\ ~Has(call.spec, "properties")
  /\ Has(call.spec, "additionalProperties")
  /\ IsDict(Get(call.spec, "additionalProperties"))
  /\ (Has(Get(call.spec, "additionalProperties"), "anyOf")
      \/ Has(Get(call.spec, "additionalProperties"), "oneOf"))
  /\ \A i \in 1..Len(MapAlts(Get(call.spec, "additionalProperties")).l) :
       IsDict(MapAlts(Get(call.spec, "additionalProperties")).l[i])

\* the line and the substructure the claim gives an alternative
C7_Alternative(alt, indent) ==
  LET d == Get(alt, "description")
      text == IF d.k = "str" /\ d.s # "" THEN d.s
              ELSE "Value of type *" \o TypeOr(alt, "any") \o "*"
  IN <<MdLine(indent, <<"- ", text>>)>>
     \o _render_schema_bullets(alt, None, indent + 2, St(heap, {}, <<>>)).lines

\* C7: for an object node whose map value is a union of alternatives,
\* _render_schema_bullets returns, per alternative and in order, one line
\* with the alternative's description, or "Value of type X" when it has none,
\* followed by the alternative's substructure one level deeper.
C7_LinePerAlternative ==
  C7_Case =>
    LET alts == MapAlts(Get(call.spec, "additionalProperties")).l
        inner == IF call.name = None THEN call.indent ELSE call.indent + 2
        own == IF call.name = None THEN <<>>
               ELSE <<MdLine(call.indent, <<"- " \o BQ, call.name.s, BQ \o " (*", "type: object", "*)">>)>>
    IN /\ pc = "returned"
       /\ ret = own \o Flatten([i \in 1..Len(alts) |-> C7_Alternative(alts[i], inner)])

\* the node with its own combinator entries removed
C8_Plain(spec) == JDict(SelectSeq(spec.d, LAMBDA e : e.key \notin {"anyOf", "oneOf"}))

C8_Case ==
  /\ call.fn = "_render_schema_bullets"
  /\ IsDict(call.spec)
  /\ (Has(call.spec, "anyOf") \/ Has(call.spec, "oneOf"))
  /\ \/ IsTag(Get(call.spec, "type"), "array")
     \/ /\ IsTag(Get(call.spec, "type"), "object")
        /\ (Has(call.spec, "properties") \/ Has(call.spec, "additionalProperties"))

\* what the call on the node without its combinator does from this state
C8_PlainResult ==
  _render_schema_bullets(C8_Plain(call.spec), call.name, call.indent, St(heap, {}, <<>>))

\* C8: the array case and the object case end the dispatch of
\* _render_schema_bullets before the union fallback: a call on an array node,
\* or on an object node declaring properties or an open-ended map, that also
\* carries an anyOf/oneOf combinator returns the same lines, and leaves the
\* same examples behind, as the call on that node with the combinator
\* removed.
C8_CombinatorIgnored ==
  [][(pc = "ready" /\ C8_Case) =>
       /\ ret' = C8_PlainResult.lines
       /\ heap' = C8_PlainResult.st.heap
       /\ (pc' = "raised") = C8_PlainResult.fault]_vars

\* an object declaring a property and carrying a combinator whose alternative
\* declares another property was rendered under a name: two lines, none of
\* them from the alternative
C8_Witness ==
  /\ Called("_render_schema_bullets")
  /\ C8_Case
  /\ pc = "returned"
  /\ call.name # None
  /\ Has(call.spec, "properties")
  /\ \E key \in {"anyOf", "oneOf"} :
       /\ Has(call.spec, key)
       /\ Get(call.spec, key).l[1] = Inner
  /\ Len(ret) = 2
  /\ \A i \in 1..Len(ret) : ~(IsHeaderLine(ret[i]) /\ ret[i].parts[2] = "in")

---------------------------------------------------------------------------
(* Properties of the document run, checked under Spec *)

\* the positions of the elements of seq that pass Test
Positions(seq, Test(_)) == SelectSeq([i \in 1..Len(seq) |-> i], LAMBDA i : Test(seq[i]))

LineText(l) == JoinStr(l.parts, "")
TextsOf(lines) == [i \in 1..Len(lines) |-> lines[i].text]

\* what the step appended to md_lines, and the lists it formatted
Appended == SubSeq(md_lines', Len(md_lines) + 1, Len(md_lines'))
NewlyFormatted == SubSeq(fmts', Len(fmts) + 1, Len(fmts'))
IsExamplesText(l) == Len(l.sub) > 0

\* an example with its inline description entry taken out and the rest kept
C5_Kept(ex) ==
  IF ex.k = "dict" THEN JDict(SelectSeq(ex.d, LAMBDA e : e.key # "description")) ELSE ex

C5_Described(ex) == ex.k = "dict" /\ \E i \in 1..Len(ex.d) : ex.d[i].key = "description"

C5_Description(ex) ==
  LET e == SelectSeq(ex.d, LAMBDA x : x.key = "description")[1].val
  IN IF e.ws THEN " " \o e.s \o " " ELSE e.s

\* `lines` is one fenced block per example of `list`, in order, each holding
\* the example without its description, and each described example's
\* description is a line of its own before that example's block
C5_TextOk(list, lines) ==
  LET opens == Positions(lines, LAMBDA l : l.text = Fence \o "json")
      closes == Positions(lines, LAMBDA l : l.text = Fence)
  IN /\ Len(opens) = Len(list)
     /\ Len(closes) = Len(list)
     /\ \A i \in 1..Len(list) :
          /\ opens[i] < closes[i]
          /\ (i > 1 => closes[i - 1] < opens[i])
          /\ TextsOf(SubSeq(lines, opens[i] + 1, closes[i] - 1))
               = TextsOf(StripBraces(format_json_doc(C5_Kept(list[i]), 2, 0)))
          /\ IF C5_Described(list[i])
               THEN /\ opens[i] >= 3
                    /\ (i > 1 => closes[i - 1] < opens[i] - 2)
                    /\ lines[opens[i] - 2].text = C5_Description(list[i])
                    /\ lines[opens[i] - 1].text = ""
               ELSE opens[i] = (IF i = 1 THEN 1 ELSE closes[i - 1] + 2)

\* C5: a step of the document run leaves the schema tree as it is, and the
\* examples lists too, except those it hands to format_examples_for_markdown:
\* of these, each example that is a mapping with an inline description loses
\* exactly that entry, all other entries and their order staying, and, when
\* the step returns, the text put into the document has the examples' fenced
\* blocks in order with each removed description on a line of its own before
\* its example's block.
C5_DescriptionConsumed ==
  [][/\ schema' = schema
     /\ DOMAIN heap' = DOMAIN heap
     /\ \A id \in DOMAIN heap :
          IF \E k \in 1..Len(NewlyFormatted) : NewlyFormatted[k] = id
            THEN heap'[id] = [i \in 1..Len(heap[id]) |-> C5_Kept(heap[id][i])]
            ELSE heap'[id] = heap[id]
     /\ pc' # "raised" =>
          LET texts == SelectSeq(Appended, IsExamplesText)
          IN /\ Len(texts) = Len(NewlyFormatted)
             /\ \A k \in 1..Len(texts) : C5_TextOk(heap[NewlyFormatted[k]], texts[k].sub)]_vars

\* a field's list of three examples, the second with an inline description
\* among other entries, was formatted: the description is gone from the list
\* and the other two entries are still there, in order
C5_Witness ==
  /\ pc = "written"
  /\ \E k \in 1..Len(fmts) :
       /\ Len(heap[fmts[k]]) = 3
       /\ heap[fmts[k]][2] = JDict(<<E("a", JInt(1)), E("b", JList(<<>>))>>)
       /\ heap[fmts[k]][3] = JDict(<<>>)
  /\ \E i \in 1..Len(md_lines) :
       /\ IsExamplesText(md_lines[i])
       /\ \E j \in 1..Len(md_lines[i].sub) : md_lines[i].sub[j].text = " second "

C6_Order == <<"$schema", "metadata", "data">>

C6_StrippedOrEmpty(spec, key) == IF Has(spec, key) THEN Get(spec, key).s ELSE ""

C6_IsSectionHeading(l) == Len(l.parts) >= 1 /\ l.parts[1] = "## "
C6_IsFieldHeading(l) == Len(l.parts) >= 2 /\ l.parts[1] = "### " \o BQ

\* the names declared in the i-th section, in declaration order
C6_Declared(i) ==
  LET section == Get(Get(schema, "properties"), C6_Order[i])
  IN IF Has(section, "properties")
       THEN [j \in 1..Len(Get(section, "properties").d) |-> Get(section, "properties").d[j].key]
       ELSE <<>>

\* the names of the field headings between the i-th section heading and the next
C6_Emitted(heads, i) ==
  LET from == heads[i] + 1
      to == IF i < Len(heads) THEN heads[i + 1] - 1 ELSE Len(md_lines)
      fields == SelectSeq(SubSeq(md_lines, from, to), C6_IsFieldHeading)
  IN [j \in 1..Len(fields) |-> fields[j].parts[2]]

\* C6: once write_markdown has begun, the first two lines of the document are
\* "# " with the schema title and the schema description, each empty when
\* absent; the level-2 headings are those of the $schema, the metadata and
\* the data section, in that order, one per walk_properties call begun and
\* exactly three when the document is written; and under each section
\* heading the field headings are the section's declared names in
\* declaration order.
C6_DriverOrder ==
  pc # "start" =>
    /\ Len(md_lines) >= 3
    /\ LineText(md_lines[1]) = "# " \o C6_StrippedOrEmpty(schema, "title")
    /\ LineText(md_lines[2]) = C6_StrippedOrEmpty(schema, "description")
    /\ LET heads == Positions(md_lines, C6_IsSectionHeading)
       IN /\ Len(heads) = (IF pc = "walk" THEN sec - 1 ELSE sec)
          /\ pc = "written" => Len(heads) = 3
          /\ \A i \in 1..Len(heads) :
               /\ LineText(md_lines[heads[i]])
                    = "## " \o C6_StrippedOrEmpty(Get(Get(schema, "properties"), C6_Order[i]), "title")
               /\ LineText(md_lines[heads[i] + 1])
                    = C6_StrippedOrEmpty(Get(Get(schema, "properties"), C6_Order[i]), "description")
               /\ Len(C6_Emitted(heads, i)) <= Len(C6_Declared(i))
               /\ C6_Emitted(heads, i) = SubSeq(C6_Declared(i), 1, Len(C6_Emitted(heads, i)))
               /\ (i < sec \/ pc = "written") => C6_Emitted(heads, i) = C6_Declared(i)
               /\ (i = sec /\ pc = "fields") => Len(C6_Emitted(heads, i)) = fld - 1

\* a document with titles, one field in the $schema section and one in the
\* data section, was written
C6_Witness ==
  /\ pc = "written"
  /\ Has(schema, "title")
  /\ Len(C6_Declared(1)) = 1
  /\ Len(C6_Declared(2)) = 0
  /\ Len(C6_Declared(3)) = 1
  /\ Len(Positions(md_lines, C6_IsSectionHeading)) = 3
  /\ Len(Positions(md_lines, C6_IsFieldHeading)) = 2

C9_IsAltLine(l) == Len(l.parts) = 2 /\ l.parts[1] = "- "

\* C9: in a document run every call of _render_schema_bullets, at any depth,
\* receives no name, so no line of the document is the line of a named node
\* (a marker, the array line, the "type: object" line, the leaf line): the
\* bullet lines are property header lines and alternative description lines.
C9_NoNameInDocument ==
  /\ names \subseteq {None}
  /\ \A i \in 1..Len(md_lines) :
       /\ ~IsNameLine(md_lines[i])
       /\ md_lines[i].ind > 0 =>
            IsHeaderLine(md_lines[i]) \/ C9_IsAltLine(md_lines[i]) \/ md_lines[i].parts = <<"Examples:">>
                                      \/ md_lines[i].parts = <<"Example:">>

\* a written document with an array field and a map field, whose nodes went
\* through the items recursion, the property loop and the map loop
C9_Witness ==
  /\ pc = "written"
  /\ names = {None}
  /\ \E i \in 1..Len(md_lines) : IsHeaderLine(md_lines[i]) /\ md_lines[i].ind = 2
  /\ \E i \in 1..Len(md_lines) : C9_IsAltLine(md_lines[i])
  /\ \E s \in 1..3 : \E j \in 1..Len(FieldsOf(SectionOf(schema, s))) :
       Has(FieldsOf(SectionOf(schema, s))[j].val, "items")

\* the inline descriptions of the examples of a list
C10_Descriptions(list) ==
  {C5_Description(list[i]) : i \in {j \in 1..Len(list) : C5_Described(list[j])}}

\* C10: in a document run format_examples_for_markdown is applied to each
\* examples list at most once; a list changes only in the step that formats
\* it, not before; and when that step returns, every inline description the
\* list held is a line of the text the step put into the document.
C10_FormattedOnce ==
  /\ [](\A i \in 1..Len(fmts) : \A j \in 1..Len(fmts) : fmts[i] = fmts[j] => i = j)
  /\ [][/\ \A id \in DOMAIN heap :
             heap'[id] # heap[id] =>
               /\ \A k \in 1..Len(fmts) : fmts[k] # id
               /\ \E k \in 1..Len(NewlyFormatted) : NewlyFormatted[k] = id
        /\ pc' # "raised" =>
             \A k \in 1..Len(NewlyFormatted) :
               \A d \in C10_Descriptions(heap[NewlyFormatted[k]]) :
                 \E i \in 1..Len(Appended) : \E j \in 1..Len(Appended[i].sub) :
                   Appended[i].sub[j].text = d]_vars

\* a document was written in which the examples of a field and the examples
\* of one of its properties were both formatted, each holding a description
C10_Witness ==
  /\ pc = "written"
  /\ Len(fmts) >= 2
  /\ \E i \in 1..Len(md_lines) : \E j \in 1..Len(md_lines[i].sub) :
       md_lines[i].sub[j] = Ln(0, "first")
  /\ \E i \in 1..Len(md_lines) : \E j \in 1..Len(md_lines[i].sub) :
       md_lines[i].sub[j] = Ln(2, " second ")

====
